---- MODULE Spec2Model ----
(***************************************************************************)
(* asgard::Handler (src/asgard/handler.cpp): the request pipeline that     *)
(* resolves a travel mode to a costing model, projects the places, runs    *)
(* the matrix solver and classifies every result.                          *)
(*                                                                         *)
(* Units: a speed is an integer number of tenths of a metre per second     *)
(* (14 is 1.4 m/s); a walking_speed option is an integer number of         *)
(* hundredths of a km/h, so that "speed *= 3.6" is speed * 36 exactly.     *)
(***************************************************************************)
EXTENDS Integers, Sequences, FiniteSets, TLC

VARIABLES
    mode_costing,     \* Handler::mode_costing: slot -> costing model
    overcommitted,    \* what graph.OverCommitted() answers
    crashed,          \* the process died on a failed assert
    pc,               \* per thread: the statement of handle it is at
    request,          \* per thread: request.sn_routing_matrix()
    kind,             \* per thread: request.requested_api()
    costing,          \* per thread: the local "costing" of line 117
    path_locations,   \* per thread: the keys of the projector's mapping
    res,              \* per thread: the solver's flat result
    response,         \* per thread: the rows of the response being built
    nb_unknown,       \* per thread: the logged counter
    nb_unreached,     \* per thread: the logged counter
    outcome,          \* per thread: how handle ended
    trace,            \* per thread: the steps handle has taken so far
    latest            \* per mode: the last accepted-kind request that named it

vars == <<mode_costing, overcommitted, crashed, pc, request, kind, costing,
          path_locations, res, response, nb_unknown, nb_unreached, outcome, trace,
          latest>>

shared == <<mode_costing, overcommitted, crashed>>

----------------------------------------------------------------------------
(* Bounds and input sets *)

MaxResults == 2

Threads == {1, 2}

Kinds == {"street_network_routing_matrix", "direct_path", "places"}

Modes == {"walking", "bike", "car", "", "bus"}

Speeds == {14, 50}

kMaxCost == 99999999

MaxDurations == {0, 600, kMaxCost, kMaxCost + 1}

Times == {600, 601, kMaxCost}

OriginLists == {<<"a">>, <<"a", "b">>}

DestinationLists == {<<"c">>}

RECURSIVE SeqsUpTo(_, _)
SeqsUpTo(S, n) ==
    IF n = 0 THEN {<<>>}
    ELSE LET shorter == SeqsUpTo(S, n - 1)
         IN  shorter \cup {Append(s, x) : s \in {q \in shorter : Len(q) = n - 1}, x \in S}

Requests ==
    [mode : Modes, speed : Speeds, max_duration : MaxDurations,
     origins : OriginLists, destinations : DestinationLists]

ConcurrentRequests ==
    [mode : {"walking", "bike", ""}, speed : Speeds, max_duration : {600},
     origins : {<<"a">>}, destinations : {<<"c">>}]

Results == SeqsUpTo(Times, MaxResults)

ConcurrentResults == {<<600>>, <<kMaxCost, 601>>}

----------------------------------------------------------------------------
(* Static data of handler.cpp *)

NumCostingOptions == 12

Costing == [auto_ |-> 0, bicycle |-> 2, pedestrian |-> 7]

TravelMode == [kDrive |-> 0, kPedestrian |-> 1, kBicycle |-> 2, kMaxTravelMode |-> 4]

Unset == [set |-> FALSE, v |-> 0]

make_default_directions_options ==
    [i \in 0 .. (NumCostingOptions - 1) |-> [walking_speed |-> Unset]]

default_directions_options == make_default_directions_options

mode_map ==
    [m \in {"walking", "bike", "car"} |->
        CASE m = "walking" -> TravelMode.kPedestrian
          [] m = "bike"    -> TravelMode.kBicycle
          [] m = "car"     -> TravelMode.kDrive]

InModeMap(mode) == mode \in DOMAIN mode_map

\* Variant: bike resolved to the pedestrian slot.
mode_index_collide(mode) ==
    IF mode = "bike" THEN TravelMode.kPedestrian ELSE mode_map[mode]

mode_index(mode) == mode_map[mode]

KmhPerMs == 36

\* Variant: the speed is written to the auto slot as well.
make_costing_option_auto(mode, speed) ==
    LET kmh == speed * KmhPerMs
        options == default_directions_options
    IN  [options EXCEPT ![Costing.pedestrian].walking_speed = [set |-> TRUE, v |-> kmh],
                        ![Costing.bicycle].walking_speed = [set |-> TRUE, v |-> kmh],
                        ![Costing.auto_].walking_speed = [set |-> TRUE, v |-> kmh]]

make_costing_option(mode, speed) ==
    LET kmh == speed * KmhPerMs
        options == default_directions_options
    IN  [options EXCEPT ![Costing.pedestrian].walking_speed = [set |-> TRUE, v |-> kmh],
                        ![Costing.bicycle].walking_speed = [set |-> TRUE, v |-> kmh]]

ToCostingThrows(mode) == mode \notin {"walking", "bike", "car"}

to_costing(mode) ==
    CASE mode = "walking" -> Costing.pedestrian
      [] mode = "bike"    -> Costing.bicycle
      [] mode = "car"     -> Costing.auto_

\* factory.Create: a new model of family c that has read its own option slot;
\* owner names the allocation (0: the constructor, t: the request of thread t).
Create(c, options, owner) ==
    [costing |-> c, options |-> options[c], owner |-> owner]

Null == [costing |-> -1, options |-> [walking_speed |-> Unset], owner |-> 0]

NoRequester == [speed |-> 0, thread |-> 0]

NoRequest ==
    [mode |-> "", speed |-> 0, max_duration |-> 0, origins |-> <<>>, destinations |-> <<>>]

----------------------------------------------------------------------------
(* Helpers *)

Range(s) == {s[i] : i \in 1 .. Len(s)}

Event(call, model, over) == [call |-> call, costing |-> model, over |-> over]

Calls(t) == [i \in 1 .. Len(trace[t]) |-> trace[t][i].call]

Called(t, call) == \E i \in 1 .. Len(trace[t]) : trace[t][i].call = call

\* Variant: the test of line 94 inverted.
AcceptedKindInverted(k) == k \notin {"street_network_routing_matrix", "direct_path"}

AcceptedKind(k) == k \in {"street_network_routing_matrix", "direct_path"}

\* Variant: the threshold is compared with >= .
ExceedsOrEquals(time, max_duration) ==
    IF max_duration < 0 THEN FALSE ELSE time >= max_duration

\* elt.time > uint32_t(max_duration): a negative max_duration wraps to a value
\* of at least 2^31, above every time drawn here.
ExceedsMaxDuration(time, max_duration) ==
    IF max_duration < 0 THEN FALSE ELSE time > max_duration

\* Variant: the threshold is tested before the sentinel.
routing_status_threshold_first(time, max_duration) ==
    IF ExceedsMaxDuration(time, max_duration) THEN "unreached"
    ELSE IF time = kMaxCost THEN "unknown"
    ELSE "reached"

routing_status(time, max_duration) ==
    IF time = kMaxCost THEN "unknown"
    ELSE IF ExceedsMaxDuration(time, max_duration) THEN "unreached"
    ELSE "reached"

\* The loop of lines 148-160 from element i on: the row and both counters.
RECURSIVE ClassifyLoop(_, _, _, _)
ClassifyLoop(r, max_duration, i, acc) ==
    IF i > Len(r) THEN acc
    ELSE LET st == routing_status(r[i], max_duration)
             k  == [duration |-> r[i], routing_status |-> st]
         IN  ClassifyLoop(r, max_duration, i + 1,
                 [row          |-> Append(acc.row, k),
                  nb_unknown   |-> acc.nb_unknown + (IF st = "unknown" THEN 1 ELSE 0),
                  nb_unreached |-> acc.nb_unreached + (IF st = "unreached" THEN 1 ELSE 0)])

----------------------------------------------------------------------------
(* Handler::Handler *)

Init ==
    /\ mode_costing =
         [i \in 0 .. (TravelMode.kMaxTravelMode - 1) |->
            CASE i = mode_index("car") ->
                    Create(Costing.auto_, default_directions_options, 0)
              [] i = mode_index("walking") ->
                    Create(Costing.pedestrian, default_directions_options, 0)
              [] i = mode_index("bike") ->
                    Create(Costing.bicycle, default_directions_options, 0)
              [] OTHER -> Null]
    /\ overcommitted = FALSE
    /\ crashed = FALSE
    /\ pc = [t \in Threads |-> "idle"]
    /\ request = [t \in Threads |-> NoRequest]
    /\ kind = [t \in Threads |-> "none"]
    /\ costing = [t \in Threads |-> Null]
    /\ path_locations = [t \in Threads |-> {}]
    /\ res = [t \in Threads |-> <<>>]
    /\ response = [t \in Threads |-> <<>>]
    /\ nb_unknown = [t \in Threads |-> 0]
    /\ nb_unreached = [t \in Threads |-> 0]
    /\ outcome = [t \in Threads |-> "none"]
    /\ trace = [t \in Threads |-> <<>>]
    /\ latest = [m \in DOMAIN mode_map |-> NoRequester]

----------------------------------------------------------------------------
(* Handler::handle, statement by statement *)

\* Lines 93-98: handle is entered with a request; a request of another kind is
\* answered with an empty response.
Validate(t, reqs) ==
    /\ ~crashed
    /\ pc[t] = "idle"
    /\ \E k \in Kinds, r \in reqs :
         /\ kind' = [kind EXCEPT ![t] = k]
         /\ request' = [request EXCEPT ![t] = r]
         /\ latest' = IF AcceptedKind(k) /\ InModeMap(r.mode)
                       THEN [latest EXCEPT ![r.mode] = [speed |-> r.speed, thread |-> t]]
                       ELSE latest
         /\ IF AcceptedKind(k)
            THEN /\ pc' = [pc EXCEPT ![t] = "resolve"]
                 /\ outcome' = [outcome EXCEPT ![t] = "running"]
            ELSE /\ pc' = [pc EXCEPT ![t] = "done"]
                 /\ outcome' = [outcome EXCEPT ![t] = "returned"]
    /\ costing' = [costing EXCEPT ![t] = Null]
    /\ path_locations' = [path_locations EXCEPT ![t] = {}]
    /\ res' = [res EXCEPT ![t] = <<>>]
    /\ response' = [response EXCEPT ![t] = <<>>]
    /\ nb_unknown' = [nb_unknown EXCEPT ![t] = 0]
    /\ nb_unreached' = [nb_unreached EXCEPT ![t] = 0]
    /\ trace' = [trace EXCEPT ![t] = <<Event("validate", Null, overcommitted)>>]
    /\ UNCHANGED shared

\* The failures line 116 can raise: mode_map.at (std::out_of_range) in
\* mode_index, the throw of to_costing (std::invalid_argument). Which operand of
\* the assignment is evaluated first is unspecified before C++17.
ResolveFailures(mode) ==
    (IF InModeMap(mode) THEN {} ELSE {"out_of_range"})
        \cup (IF ToCostingThrows(mode) THEN {"invalid_argument"} ELSE {})

\* Line 116.
Resolve(t) ==
    /\ ~crashed
    /\ pc[t] = "resolve"
    /\ LET mode == request[t].mode
       IN  IF ResolveFailures(mode) # {}
           THEN /\ \E e \in ResolveFailures(mode) :
                      outcome' = [outcome EXCEPT ![t] = e]
                /\ pc' = [pc EXCEPT ![t] = "done"]
                /\ UNCHANGED <<mode_costing, trace>>
           ELSE /\ mode_costing' =
                     [mode_costing EXCEPT ![mode_index(mode)] =
                        Create(to_costing(mode),
                               make_costing_option(mode, request[t].speed), t)]
                /\ pc' = [pc EXCEPT ![t] = "read"]
                /\ trace' = [trace EXCEPT ![t] =
                               Append(@, Event("replace", Null, overcommitted))]
                /\ UNCHANGED outcome
    /\ UNCHANGED <<overcommitted, crashed, request, kind, costing, path_locations,
                   res, response, nb_unknown, nb_unreached, latest>>

\* Variant: line 117 reads the slot of a fixed mode.
ReadSlotFixed(t) ==
    /\ ~crashed
    /\ pc[t] = "read"
    /\ costing' = [costing EXCEPT ![t] = mode_costing[TravelMode.kPedestrian]]
    /\ pc' = [pc EXCEPT ![t] = "project"]
    /\ UNCHANGED <<shared, request, kind, path_locations, res, response,
                   nb_unknown, nb_unreached, outcome, trace, latest>>

\* Line 117.
ReadSlot(t) ==
    /\ ~crashed
    /\ pc[t] = "read"
    /\ costing' = [costing EXCEPT ![t] = mode_costing[mode_index(request[t].mode)]]
    /\ pc' = [pc EXCEPT ![t] = "project"]
    /\ UNCHANGED <<shared, request, kind, path_locations, res, response,
                   nb_unknown, nb_unreached, outcome, trace, latest>>

\* Variant: a missing identifier is skipped instead of raising.
ProjectSkipsGaps(t) ==
    /\ ~crashed
    /\ pc[t] = "project"
    /\ \E keys \in SUBSET (Range(request[t].origins) \cup Range(request[t].destinations)) :
          path_locations' = [path_locations EXCEPT ![t] = keys]
    /\ pc' = [pc EXCEPT ![t] = "solve"]
    /\ \E over \in {overcommitted, TRUE} : overcommitted' = over
    /\ trace' = [trace EXCEPT ![t] =
                   Append(@, Event("project", costing[t], overcommitted))]
    /\ UNCHANGED <<mode_costing, crashed, request, kind, costing, res, response,
                   nb_unknown, nb_unreached, outcome, latest>>

\* Lines 119-131: the projector answers with a mapping over some of the
\* identifiers; path_locations.at raises std::out_of_range on a missing one.
\* Reading tiles can only fill the graph's cache.
Project(t) ==
    /\ ~crashed
    /\ pc[t] = "project"
    /\ LET sources == request[t].origins
           targets == request[t].destinations
       IN  \E keys \in SUBSET (Range(sources) \cup Range(targets)) :
             /\ path_locations' = [path_locations EXCEPT ![t] = keys]
             /\ IF (Range(sources) \cup Range(targets)) \subseteq keys
                THEN /\ pc' = [pc EXCEPT ![t] = "solve"]
                     /\ UNCHANGED outcome
                ELSE /\ pc' = [pc EXCEPT ![t] = "done"]
                     /\ outcome' = [outcome EXCEPT ![t] = "out_of_range"]
    /\ \E over \in {overcommitted, TRUE} : overcommitted' = over
    /\ trace' = [trace EXCEPT ![t] =
                   Append(@, Event("project", costing[t], overcommitted))]
    /\ UNCHANGED <<mode_costing, crashed, request, kind, costing, res, response,
                   nb_unknown, nb_unreached, latest>>

\* Lines 133-147: the solver reads the slot of the mode out of mode_costing;
\* the assert is compiled out under NDEBUG, and ends the process otherwise.
Solve(t, results) ==
    /\ ~crashed
    /\ pc[t] = "solve"
    /\ \E r \in results :
         /\ res' = [res EXCEPT ![t] = r]
         /\ IF Len(r) = Len(request[t].origins) * Len(request[t].destinations)
            THEN /\ pc' = [pc EXCEPT ![t] = "classify"]
                 /\ UNCHANGED <<crashed, outcome>>
            ELSE \/ /\ pc' = [pc EXCEPT ![t] = "classify"]
                    /\ UNCHANGED <<crashed, outcome>>
                 \/ /\ pc' = [pc EXCEPT ![t] = "done"]
                    /\ crashed' = TRUE
                    /\ outcome' = [outcome EXCEPT ![t] = "assert_failed"]
    /\ \E over \in {overcommitted, TRUE} : overcommitted' = over
    /\ response' = [response EXCEPT ![t] = << <<>> >>]
    /\ trace' = [trace EXCEPT ![t] =
                   Append(@, Event("solve",
                                   mode_costing[mode_map[request[t].mode]],
                                   overcommitted))]
    /\ UNCHANGED <<mode_costing, request, kind, costing, path_locations,
                   nb_unknown, nb_unreached, latest>>

\* Lines 148-164.
Classify(t) ==
    /\ ~crashed
    /\ pc[t] = "classify"
    /\ LET done == ClassifyLoop(res[t], request[t].max_duration, 1,
                        [row |-> response[t][1], nb_unknown |-> 0, nb_unreached |-> 0])
       IN  /\ response' = [response EXCEPT ![t] = <<done.row>>]
           /\ nb_unknown' = [nb_unknown EXCEPT ![t] = done.nb_unknown]
           /\ nb_unreached' = [nb_unreached EXCEPT ![t] = done.nb_unreached]
    /\ pc' = [pc EXCEPT ![t] = "steward"]
    /\ trace' = [trace EXCEPT ![t] = Append(@, Event("classify", Null, overcommitted))]
    /\ UNCHANGED <<shared, request, kind, costing, path_locations, res, outcome,
                   latest>>

\* Variant: the graph is cleared without asking OverCommitted.
StewardAlwaysClears(t) ==
    /\ ~crashed
    /\ pc[t] = "steward"
    /\ overcommitted' = FALSE
    /\ trace' = [trace EXCEPT ![t] =
                   @ \o <<Event("query", Null, overcommitted),
                          Event("clear", Null, overcommitted)>>]
    /\ pc' = [pc EXCEPT ![t] = "done"]
    /\ outcome' = [outcome EXCEPT ![t] = "returned"]
    /\ UNCHANGED <<mode_costing, crashed, request, kind, costing, path_locations,
                   res, response, nb_unknown, nb_unreached, latest>>

\* Lines 166-169.
Steward(t) ==
    /\ ~crashed
    /\ pc[t] = "steward"
    /\ IF overcommitted
       THEN /\ overcommitted' = FALSE
            /\ trace' = [trace EXCEPT ![t] =
                           @ \o <<Event("query", Null, overcommitted),
                                  Event("clear", Null, overcommitted)>>]
       ELSE /\ UNCHANGED overcommitted
            /\ trace' = [trace EXCEPT ![t] =
                           Append(@, Event("query", Null, overcommitted))]
    /\ pc' = [pc EXCEPT ![t] = "done"]
    /\ outcome' = [outcome EXCEPT ![t] = "returned"]
    /\ UNCHANGED <<mode_costing, crashed, request, kind, costing, path_locations,
                   res, response, nb_unknown, nb_unreached, latest>>

\* The caller has taken the response (or the failure): the locals of the call
\* are gone and the Handler waits for the next request.
Return(t) ==
    /\ ~crashed
    /\ pc[t] = "done"
    /\ pc' = [pc EXCEPT ![t] = "idle"]
    /\ request' = [request EXCEPT ![t] = NoRequest]
    /\ kind' = [kind EXCEPT ![t] = "none"]
    /\ costing' = [costing EXCEPT ![t] = Null]
    /\ path_locations' = [path_locations EXCEPT ![t] = {}]
    /\ res' = [res EXCEPT ![t] = <<>>]
    /\ response' = [response EXCEPT ![t] = <<>>]
    /\ nb_unknown' = [nb_unknown EXCEPT ![t] = 0]
    /\ nb_unreached' = [nb_unreached EXCEPT ![t] = 0]
    /\ outcome' = [outcome EXCEPT ![t] = "none"]
    /\ trace' = [trace EXCEPT ![t] = <<>>]
    /\ UNCHANGED <<shared, latest>>

----------------------------------------------------------------------------
(* Specifications *)

\* One Handler serving its caller one request at a time.
Serve == Validate(1, Requests)

SolveAny == Solve(1, Results)

Next ==
    \/ Serve
    \/ Resolve(1)
    \/ ReadSlot(1)
    \/ Project(1)
    \/ SolveAny
    \/ Classify(1)
    \/ Steward(1)
    \/ Return(1)

Spec == Init /\ [][Next]_vars

\* Two requests, one per thread, interleaved at the statements of handle.
Enter(t) == Validate(t, ConcurrentRequests)

SolveSome(t) == Solve(t, ConcurrentResults)

NextConcurrent ==
    \E t \in Threads :
        \/ Enter(t)
        \/ Resolve(t)
        \/ ReadSlot(t)
        \/ Project(t)
        \/ SolveSome(t)
        \/ Classify(t)
        \/ Steward(t)

SpecConcurrent == Init /\ [][NextConcurrent]_vars

----------------------------------------------------------------------------
(* Vocabulary of the properties *)

SupportedModes == {"walking", "bike", "car"}

WrongKind(k) == k \notin {"street_network_routing_matrix", "direct_path", "none"}

Serving(t) == pc[t] # "idle"

Ids(t) == Range(request[t].origins) \cup Range(request[t].destinations)

Cells(t) == Len(request[t].origins) * Len(request[t].destinations)

Classified(t) == Called(t, "classify")

Row(t) == response[t][1]

TheEvent(t, call) == trace[t][CHOOSE i \in 1 .. Len(trace[t]) : trace[t][i].call = call]

\* The model a request of thread t for mode m at speed s is to install.
Built(m, s, t) ==
    [costing |-> CASE m = "walking" -> Costing.pedestrian
                   [] m = "bike"    -> Costing.bicycle
                   [] m = "car"     -> Costing.auto_,
     options |-> IF m = "car"
                 THEN default_directions_options[Costing.auto_]
                 ELSE [walking_speed |-> [set |-> TRUE, v |-> s * KmhPerMs]],
     owner   |-> t]

DefaultBuilt(m) ==
    [costing |-> CASE m = "walking" -> Costing.pedestrian
                   [] m = "bike"    -> Costing.bicycle
                   [] m = "car"     -> Costing.auto_,
     options |-> [walking_speed |-> Unset],
     owner   |-> 0]

StepOrder == <<"validate", "replace", "project", "solve", "classify", "query", "clear">>

----------------------------------------------------------------------------
(* C1: once a request has classified its results, every result whose time is
   the sentinel kMaxCost has status unknown, never unreached, whatever
   max_duration is (0, below, at or above the sentinel). *)
C1_SentinelIsUnknown ==
    \A t \in Threads :
        Classified(t) =>
            /\ Len(response[t]) = 1
            /\ Len(Row(t)) = Len(res[t])
            /\ \A i \in 1 .. Len(res[t]) :
                 res[t][i] = kMaxCost => Row(t)[i].routing_status = "unknown"

C1_Witness ==
    /\ pc[1] = "done"
    /\ outcome[1] = "returned"
    /\ Classified(1)
    /\ request[1].max_duration = 0
    /\ \E i \in 1 .. Len(res[1]) :
         res[1][i] = kMaxCost /\ Row(1)[i].routing_status = "unknown"

(* C2: every result that is not the sentinel is unreached when its time is
   strictly greater than max_duration and reached otherwise (time equal to
   max_duration is reached); nb_unknown and nb_unreached count the results
   given those statuses; the scenario of six results classifies as stated. *)
C2_ThresholdAndCounters ==
    /\ \A t \in Threads :
         Classified(t) =>
            /\ Len(response[t]) = 1
            /\ Len(Row(t)) = Len(res[t])
            /\ \A i \in 1 .. Len(res[t]) :
                 res[t][i] # kMaxCost =>
                    Row(t)[i].routing_status =
                        IF res[t][i] > request[t].max_duration
                        THEN "unreached" ELSE "reached"
            /\ nb_unknown[t] =
                 Cardinality({i \in 1 .. Len(Row(t)) : Row(t)[i].routing_status = "unknown"})
            /\ nb_unreached[t] =
                 Cardinality({i \in 1 .. Len(Row(t)) : Row(t)[i].routing_status = "unreached"})
    /\ LET done == ClassifyLoop(<<100, kMaxCost, 700, 50, 599, 601>>, 600, 1,
                        [row |-> <<>>, nb_unknown |-> 0, nb_unreached |-> 0])
       IN  /\ [i \in 1 .. 6 |-> done.row[i].routing_status] =
                  <<"reached", "unknown", "unreached", "reached", "reached", "unreached">>
           /\ done.nb_unknown = 1
           /\ done.nb_unreached = 2

C2_Witness ==
    /\ pc[1] = "done"
    /\ outcome[1] = "returned"
    /\ request[1].max_duration = 600
    /\ res[1] = <<600, 601>>
    /\ Row(1)[1].routing_status = "reached"
    /\ Row(1)[2].routing_status = "unreached"
    /\ nb_unreached[1] = 1
    /\ nb_unknown[1] = 0

(* C3: a request that returns a matrix response returns exactly one row of
   origins_count * destinations_count entries, the i-th carrying the i-th
   solver result; a solver result of any other length makes the request fail
   on the assert, so that no shorter or longer row is ever returned. *)
C3_RowLengthOrFatal ==
    \A t \in Threads :
        (pc[t] = "done" /\ Called(t, "solve")) =>
            /\ outcome[t] = "returned" =>
                 /\ Len(response[t]) = 1
                 /\ Len(Row(t)) = Cells(t)
                 /\ \A i \in 1 .. Len(Row(t)) : Row(t)[i].duration = res[t][i]
            /\ Len(res[t]) # Cells(t) => outcome[t] = "assert_failed"

(* C4: a request of a kind other than street_network_routing_matrix and
   direct_path is answered with an empty response and no failure; it takes no
   other step (no slot written, no projector, no solver, no graph query or
   clear) and the step that answers it leaves mode_costing and the graph as
   they were. *)
C4_WrongKindState ==
    \A t \in Threads :
        (Serving(t) /\ WrongKind(kind[t])) =>
            /\ pc[t] = "done"
            /\ outcome[t] = "returned"
            /\ response[t] = <<>>
            /\ Calls(t) = <<"validate">>

C4_WrongKindStep ==
    \A t \in Threads :
        (pc[t] = "idle" /\ pc'[t] # "idle" /\ WrongKind(kind'[t])) =>
            /\ mode_costing' = mode_costing
            /\ overcommitted' = overcommitted
            /\ crashed' = crashed

C4_WrongKindIsEmpty == [] C4_WrongKindState /\ [][C4_WrongKindStep]_vars

C4_Witness ==
    /\ pc[1] = "done"
    /\ kind[1] = "places"
    /\ request[1].mode = "walking"
    /\ response[1] = <<>>
    /\ outcome[1] = "returned"
    /\ trace[1][1].over

(* C5: a request of an accepted kind whose mode is none of walking, bike, car
   ends in std::invalid_argument with no response, having written no slot and
   called neither the projector nor the solver. *)
C5_BadModeInvalidArgument ==
    \A t \in Threads :
        (pc[t] = "done" /\ ~WrongKind(kind[t]) /\ request[t].mode \notin SupportedModes) =>
            /\ outcome[t] = "invalid_argument"
            /\ response[t] = <<>>
            /\ Calls(t) = <<"validate">>

(* C6: the model a request installs for walking or bike carries the speed
   option speed * 3.6; the one it installs for car carries the auto slot of
   the default template, whatever the speed; make_costing_option changes the
   pedestrian and bicycle slots only. *)
C6_SpeedOnlyForWalkingAndBike ==
    \A t \in Threads :
        (pc[t] = "read" /\ request[t].mode \in SupportedModes) =>
            LET m       == request[t].mode
                s       == request[t].speed
                model   == mode_costing[mode_index(m)]
                options == make_costing_option(m, s)
            IN  /\ m \in {"walking", "bike"} =>
                     model.options.walking_speed = [set |-> TRUE, v |-> s * KmhPerMs]
                /\ m = "car" =>
                     model.options = default_directions_options[Costing.auto_]
                /\ model.costing = (CASE m = "walking" -> Costing.pedestrian
                                      [] m = "bike"    -> Costing.bicycle
                                      [] m = "car"     -> Costing.auto_)
                /\ \A i \in DOMAIN options :
                     i \notin {Costing.pedestrian, Costing.bicycle} =>
                        options[i] = default_directions_options[i]
                /\ default_directions_options = make_default_directions_options

C6_Witness ==
    /\ pc[1] = "read"
    /\ request[1].mode = "car"
    /\ request[1].speed = 50
    /\ mode_costing[mode_index("car")].owner = 1
    /\ mode_costing[mode_index("car")].options.walking_speed = Unset
    /\ mode_costing[mode_index("bike")].options.walking_speed =
          [set |-> TRUE, v |-> 50 * KmhPerMs]

(* C7: with requests served one at a time, the slot of each supported mode
   holds the model built from the speed of the latest accepted-kind request
   that named the mode (the constructor's default-built model when there was
   none), also when that request failed at projection or in the solver; the
   three modes have three distinct slots and the remaining slot is never
   written. *)
C7_SlotHoldsLatest ==
    /\ \A m \in SupportedModes :
         (pc[1] = "resolve" /\ request[1].mode = m)
         \/ mode_costing[mode_index(m)] =
                IF latest[m].thread = 0
                THEN DefaultBuilt(m)
                ELSE Built(m, latest[m].speed, latest[m].thread)
    /\ Cardinality({mode_index(m) : m \in SupportedModes}) = 3
    /\ \A i \in DOMAIN mode_costing :
         i \notin {mode_index(m) : m \in SupportedModes} => mode_costing[i] = Null

C7_Witness ==
    /\ pc[1] = "done"
    /\ outcome[1] = "out_of_range"
    /\ Called(1, "project")
    /\ request[1].mode = "bike"
    /\ request[1].speed = 14
    /\ mode_costing[mode_index("bike")] = Built("bike", 14, 1)
    /\ mode_costing[mode_index("walking")] = Built("walking", 50, 1)
    /\ mode_costing[mode_index("car")] = DefaultBuilt("car")

(* C8: when the projector's mapping lacks one of the request's identifiers the
   request ends in the failure of path_locations.at: the solver is not called
   and no response, not even a partial row, exists. *)
C8_ProjectionGapAborts ==
    \A t \in Threads :
        (Called(t, "project") /\ ~(Ids(t) \subseteq path_locations[t])) =>
            /\ pc[t] = "done"
            /\ outcome[t] = "out_of_range"
            /\ ~Called(t, "solve")
            /\ ~Called(t, "classify")
            /\ response[t] = <<>>

C8_Witness ==
    /\ pc[1] = "done"
    /\ request[1].origins = <<"a", "b">>
    /\ request[1].destinations = <<"c">>
    /\ path_locations[1] = {"a", "c"}
    /\ outcome[1] = "out_of_range"
    /\ ~Called(1, "solve")

(* C9: two requests interleaved statement by statement. A request whose mode
   differs from the other's reads back, and hands to the projector, the model
   it built itself; a model that is not the request's own is the one the
   other request built for the same mode from its own speed; once both have
   written the same slot it holds one of their two models. *)
C9_RaceOnlyOnSameMode ==
    \A t \in Threads : \A u \in Threads \ {t} :
        LET own   == Built(request[t].mode, request[t].speed, t)
            other == Built(request[u].mode, request[u].speed, u)
        IN  /\ Called(t, "project") =>
                 /\ TheEvent(t, "project").costing = costing[t]
                 /\ request[u].mode # request[t].mode => costing[t] = own
                 /\ costing[t] # own =>
                      /\ request[u].mode = request[t].mode
                      /\ Called(u, "replace")
                      /\ costing[t] = other
            /\ (Called(t, "replace") /\ Called(u, "replace")
                    /\ request[u].mode = request[t].mode) =>
                 mode_costing[mode_index(request[t].mode)] \in {own, other}

C9_Witness ==
    /\ request[1].mode = "walking"
    /\ request[2].mode = "walking"
    /\ request[1].speed = 14
    /\ request[2].speed = 50
    /\ Called(1, "project")
    /\ costing[1] = Built("walking", 50, 2)
    /\ mode_costing[mode_index("walking")] = Built("walking", 50, 2)

(* C10: the steps of one request occur in the order validate, replace slot,
   project, solve, classify, query OverCommitted; Clear follows the query
   exactly when the query answered true, hence only after the solver returned
   and the results were classified; a request answered empty or ended by a
   failure never clears, and a graph over budget when it arrived is still over
   budget when it ends. *)
C10_OrderAndClear ==
    \A t \in {1} :
        /\ Len(trace[t]) <= Len(StepOrder)
        /\ \A i \in 1 .. Len(trace[t]) : trace[t][i].call = StepOrder[i]
        /\ Called(t, "query") =>
             /\ Called(t, "classify")
             /\ Called(t, "solve")
             /\ Called(t, "clear") <=> TheEvent(t, "query").over
             /\ ~overcommitted
        /\ Called(t, "clear") => Called(t, "query")
        /\ (pc[t] = "done" /\ ~Called(t, "query")) =>
             /\ ~Called(t, "clear")
             /\ trace[t][1].over => overcommitted

C10_Witness ==
    /\ pc[1] = "done"
    /\ outcome[1] = "returned"
    /\ Calls(1) = StepOrder
    /\ TheEvent(1, "solve").over = FALSE
    /\ TheEvent(1, "query").over = TRUE
    /\ ~overcommitted

====
